---- MODULE Spec2Model ----
(***************************************************************************)
(* A model of streamlit_app.py, the AISIS survey dashboard and chatbot.    *)
(*                                                                         *)
(* The script is re-run from top to bottom on every user interaction.  One *)
(* action of the model is one such interaction followed by the whole       *)
(* re-run: load and build the data frame, apply the four filters, compute  *)
(* the dashboard aggregations and, when a question was submitted, handle   *)
(* it in the chat tab.                                                     *)
(*                                                                         *)
(* Text is a tuple of one-character strings, so that lower-casing,         *)
(* substring search, numeric parsing and lexicographic sorting are         *)
(* computed and not assumed.  Column names are only ever compared for      *)
(* equality and are plain strings.                                         *)
(***************************************************************************)
EXTENDS Integers, Sequences, FiniteSets, TLC

VARIABLES
    source,             \* the "Select Data Source" selectbox
    table,              \* the warehouse table the query returns
    df,                 \* the data frame after LOAD DATA
    picks,              \* the four filter selectboxes
    df_f,               \* the filtered rows
    stats,              \* what the dashboard computed in this run
    messages,           \* st.session_state.messages
    num_chat_messages,  \* st.session_state.num_chat_messages
    turn                \* what the chat handler did in this run

vars == <<source, table, df, picks, df_f, stats, messages, num_chat_messages, turn>>

(***************************************************************************)
(* Bounds of the model.                                                    *)
(***************************************************************************)
MaxRows == 2
MaxExchanges == 2

(***************************************************************************)
(* Text.                                                                   *)
(***************************************************************************)
\* Characters in code point order (the order Python compares str by).
CharOrder ==
    <<" ", "(", ")", "-", ".",
      "0", "1", "2", "3", "4", "5", "6", "7", "8", "9", "?",
      "A", "B", "C", "D", "E", "F", "G", "H", "I", "J", "K", "L", "M",
      "N", "O", "P", "Q", "R", "S", "T", "U", "V", "W", "X", "Y", "Z",
      "a", "b", "c", "d", "e", "f", "g", "h", "i", "j", "k", "l", "m",
      "n", "o", "p", "q", "r", "s", "t", "u", "v", "w", "x", "y", "z">>

CodePoint(c) == CHOOSE i \in 1..Len(CharOrder) : CharOrder[i] = c

UpperLetters ==
    <<"A", "B", "C", "D", "E", "F", "G", "H", "I", "J", "K", "L", "M",
      "N", "O", "P", "Q", "R", "S", "T", "U", "V", "W", "X", "Y", "Z">>

LowerLetters ==
    <<"a", "b", "c", "d", "e", "f", "g", "h", "i", "j", "k", "l", "m",
      "n", "o", "p", "q", "r", "s", "t", "u", "v", "w", "x", "y", "z">>

LowerChar(c) ==
    IF \E i \in 1..Len(UpperLetters) : UpperLetters[i] = c
    THEN LowerLetters[CHOOSE i \in 1..Len(UpperLetters) : UpperLetters[i] = c]
    ELSE c

\* str.lower()
Lower(s) == [i \in 1..Len(s) |-> LowerChar(s[i])]

\* kw in s
Contains(s, kw) ==
    \E i \in 0..(Len(s) - Len(kw)) : SubSeq(s, i + 1, i + Len(kw)) = kw

\* a < b for str
RECURSIVE StrLess(_, _)
StrLess(a, b) ==
    IF Len(b) = 0 THEN FALSE
    ELSE IF Len(a) = 0 THEN TRUE
    ELSE IF a[1] = b[1] THEN StrLess(Tail(a), Tail(b))
    ELSE CodePoint(a[1]) < CodePoint(b[1])

\* sorted(...) of distinct strings
RECURSIVE Sorted(_)
Sorted(S) ==
    IF S = {} THEN <<>>
    ELSE LET m == CHOOSE x \in S : \A y \in S \ {x} : StrLess(x, y)
         IN  <<m>> \o Sorted(S \ {m})

Range(f) == {f[i] : i \in DOMAIN f}

Min(a, b) == IF a < b THEN a ELSE b
Max(a, b) == IF a > b THEN a ELSE b

(***************************************************************************)
(* Cells.  A text cell is a string; NaN is the missing cell of a text      *)
(* column.  A cell of the numeric column is <<n>>, or NumNaN when absent.  *)
(***************************************************************************)
NaN == <<"NaN">>
NumNaN == <<>>

Digits == <<"0", "1", "2", "3", "4", "5", "6", "7", "8", "9">>
IsDigit(c) == \E i \in 1..10 : Digits[i] = c
DigitVal(c) == (CHOOSE i \in 1..10 : Digits[i] = c) - 1

RECURSIVE ParseDigits(_, _)
ParseDigits(s, acc) ==
    IF Len(s) = 0 THEN acc ELSE ParseDigits(Tail(s), 10 * acc + DigitVal(s[1]))

\* pd.to_numeric(x, errors="coerce") of one cell: the number a digit string
\* denotes; NaN for a missing cell and for text that is no number.  (The
\* tables of this model hold unsigned integers or non-numeric text.)
to_numeric(x) ==
    IF x = NaN \/ Len(x) = 0 THEN NumNaN
    ELSE IF \A i \in 1..Len(x) : IsDigit(x[i]) THEN <<ParseDigits(x, 0)>>
    ELSE NumNaN

(***************************************************************************)
(* LOAD DATA.                                                              *)
(***************************************************************************)
Sources == {"AI_SURVEY_CLEAN", "AI_SURVEY_RAW"}

rename_map ==
    ( "WHAT_IS_YOUR_AGE_RANGE" :> "AGE_RANGE"
   @@ "WHAT_IS_YOUR_GENDER" :> "GENDER"
   @@ "WHAT_IS_YOUR_EDUCATION_LEVEL" :> "EDUCATION_LEVEL"
   @@ "WHAT_IS_YOUR_EMPLOYMENT_STATUS" :> "EMPLOYMENT_STATUS"
   @@ "PLEASE_RATE_HOW_ACTIVELY_YOU_USE_AI_POWERED_PRODUCTS_IN_YOUR_DAILY_LIFE_ON_A_SCALE_FROM_1_TO_5" :> "AI_USAGE_RATING"
   @@ "DO_YOU_GENERALLY_TRUST_ARTIFICIAL_INTELLIGENCE_AI" :> "TRUST_AI"
   @@ "WOULD_YOU_LIKE_TO_USE_MORE_AI_PRODUCTS_IN_THE_FUTURE" :> "WANT_MORE_AI" )

\* Renamed without the test of the data source.
RenamedForAnySource(src, c) ==
    IF c \in DOMAIN rename_map THEN rename_map[c] ELSE c

\* The name a column of the query result has in df: line 49 renames the keys
\* of rename_map, and only for AI_SURVEY_RAW.
Renamed(src, c) ==
    IF src = "AI_SURVEY_RAW" /\ c \in DOMAIN rename_map THEN rename_map[c] ELSE c

\* The query-result column that df's column c holds.
Origin(src, t, c) == CHOOSE o \in t.columns : Renamed(src, o) = c

\* Line 51, df.get("AI_USAGE_RATING") then pd.to_numeric: per row when the
\* column exists; the scalar None, coerced to NaN and broadcast, when not.
RatingNum(cols, r) ==
    IF "AI_USAGE_RATING" \in cols THEN to_numeric(r["AI_USAGE_RATING"]) ELSE NumNaN

\* Lines 36-51: query, rename (AI_SURVEY_RAW only), derived numeric column.
LoadData(src, t) ==
    LET cols == {Renamed(src, o) : o \in t.columns}
        row(r) == [c \in cols |-> r[Origin(src, t, c)]]
        renamed == [i \in 1..Len(t.rows) |-> row(t.rows[i])]
    IN  [columns |-> cols \cup {"AI_USAGE_RATING_NUM"},
         rows |-> [i \in 1..Len(renamed) |->
                     [c \in cols \cup {"AI_USAGE_RATING_NUM"} |->
                        IF c = "AI_USAGE_RATING_NUM"
                        THEN RatingNum(cols, renamed[i])
                        ELSE renamed[i][c]]]]

(***************************************************************************)
(* TAB 1: filter panel and Apply Filters.                                  *)
(***************************************************************************)
AllOpt == <<"(", "A", "l", "l", ")">>

FilterFields == <<"AGE_RANGE", "GENDER", "EDUCATION_LEVEL", "EMPLOYMENT_STATUS">>

\* df[col] as the sequence of its cells.
Column(rows, col) == [i \in 1..Len(rows) |-> rows[i][col]]

\* pick_opts(df.get(col, pd.Series(dtype='object'))): "(All)" and then the
\* distinct non-missing values in sorted order; an absent column is the empty
\* series.  (All text cells are str, so sorted() never raises.)
pick_opts(d, col) ==
    IF col \in d.columns
    THEN <<AllOpt>> \o Sorted(Range(Column(d.rows, col)) \ {NaN})
    ELSE <<AllOpt>>

\* if pick != "(All)": df_f = df_f[df_f[col] == pick]
FilterBy(rows, col, pick) ==
    IF pick # AllOpt THEN SelectSeq(rows, LAMBDA r : r[col] = pick) ELSE rows

\* ApplyFilters with every filter taken from df, so that the last one wins.
ApplyFiltersFromBase(d, pk) ==
    LET f1 == FilterBy(d.rows, "AGE_RANGE", pk["AGE_RANGE"])
        f2 == IF pk["GENDER"] # AllOpt
              THEN FilterBy(d.rows, "GENDER", pk["GENDER"]) ELSE f1
        f3 == IF pk["EDUCATION_LEVEL"] # AllOpt
              THEN FilterBy(d.rows, "EDUCATION_LEVEL", pk["EDUCATION_LEVEL"]) ELSE f2
    IN  IF pk["EMPLOYMENT_STATUS"] # AllOpt
        THEN FilterBy(d.rows, "EMPLOYMENT_STATUS", pk["EMPLOYMENT_STATUS"]) ELSE f3

\* Lines 77-81: the four filters, one after the other.
ApplyFilters(d, pk) ==
    LET f1 == FilterBy(d.rows, "AGE_RANGE", pk["AGE_RANGE"])
        f2 == FilterBy(f1, "GENDER", pk["GENDER"])
        f3 == FilterBy(f2, "EDUCATION_LEVEL", pk["EDUCATION_LEVEL"])
    IN  FilterBy(f3, "EMPLOYMENT_STATUS", pk["EMPLOYMENT_STATUS"])

(***************************************************************************)
(* TAB 1: the dashboard's aggregations.  A pandas Series or table is       *)
(* modelled as the mapping from its labels to its values; the order of its *)
(* entries (value_counts, sort_values) only decides the drawing order of   *)
(* the chart and is not represented.                                       *)
(***************************************************************************)
rows_per_page == 15
first_page == 1
preview_rows == 20

NotAnswered == <<"N", "o", "t", " ", "A", "n", "s", "w", "e", "r", "e", "d">>

\* math.ceil(n / rows_per_page)
total_pages_of(n) == (n + rows_per_page - 1) \div rows_per_page

\* df_f.iloc[start:end]
iloc(rows, start, end) == SubSeq(rows, start + 1, Min(end, Len(rows)))

RECURSIVE SumNum(_)
SumNum(s) == IF Len(s) = 0 THEN 0 ELSE Head(s)[1] + SumNum(Tail(s))

\* Mean dividing by the number of cells, absent ones included.
MeanOverAllCells(s) ==
    LET present == SelectSeq(s, LAMBDA x : x # NumNaN)
    IN  IF Len(present) = 0 THEN NumNaN ELSE <<SumNum(present), Len(s)>>

\* Mean dividing without looking at the count.
MeanUnguarded(s) ==
    LET present == SelectSeq(s, LAMBDA x : x # NumNaN)
    IN  <<SumNum(present), Len(present)>>

\* Series.mean(): NaN cells are skipped; the mean of no value is NaN.  A mean
\* is the pair <<sum, count>> standing for sum / count.
Mean(s) ==
    LET present == SelectSeq(s, LAMBDA x : x # NumNaN)
    IN  IF Len(present) = 0 THEN NumNaN ELSE <<SumNum(present), Len(present)>>

\* fillna left out: missing cells stay missing.
fillna_skipped(s, v) == [i \in 1..Len(s) |-> s[i]]

\* Series.fillna(v)
fillna(s, v) == [i \in 1..Len(s) |-> IF s[i] = NaN THEN v ELSE s[i]]

\* Series.value_counts(): one pass over the cells, NaN cells dropped.
RECURSIVE value_counts(_)
value_counts(s) ==
    IF Len(s) = 0 THEN [v \in {} |-> 0]
    ELSE LET rest == value_counts(Tail(s))
             v == Head(s)
         IN  IF v = NaN THEN rest
             ELSE IF v \in DOMAIN rest THEN [rest EXCEPT ![v] = @ + 1]
             ELSE (v :> 1) @@ rest

\* df_f.groupby(key)[val].mean(): rows with a missing key belong to no group.
groupby_mean(rows, key, val) ==
    [k \in Range(Column(rows, key)) \ {NaN} |->
        Mean(Column(SelectSeq(rows, LAMBDA r : r[key] = k), val))]

\* pd.crosstab(a, b): rows where either cell is missing are dropped; one
\* table row per remaining value of a, one column per remaining value of b.
crosstab(rows, a, b) ==
    LET kept == SelectSeq(rows, LAMBDA r : r[a] # NaN /\ r[b] # NumNaN)
        pairs == [i \in 1..Len(kept) |-> <<kept[i][a], kept[i][b]>>]
        n == value_counts(pairs)
        index == Range(Column(kept, a))
        columns == Range(Column(kept, b))
    IN  [index |-> index,
         columns |-> columns,
         cell |-> [p \in index \X columns |-> IF p \in DOMAIN n THEN n[p] ELSE 0]]

NoSeries == [v \in {} |-> 0]
NoTable == [index |-> {}, columns |-> {}, cell |-> [p \in {} |-> 0]]

\* Lines 83-154: what the dashboard computes from df and df_f.  A chart whose
\* column is absent is skipped (shown_* = FALSE).
Dashboard(d, f) ==
    LET tp == total_pages_of(Len(f))
        page == first_page
        start == (page - 1) * rows_per_page
    IN  [total_records |-> Len(d.rows),
         filtered_records |-> Len(f),
         total_pages |-> tp,
         max_page |-> Max(tp, 1),
         page_rows |-> iloc(f, start, start + rows_per_page),
         avg_rating |-> Mean(Column(f, "AI_USAGE_RATING_NUM")),
         shown_grp |-> "AGE_RANGE" \in d.columns,
         grp |-> IF "AGE_RANGE" \in d.columns
                 THEN groupby_mean(f, "AGE_RANGE", "AI_USAGE_RATING_NUM")
                 ELSE NoSeries,
         shown_want |-> "WANT_MORE_AI" \in d.columns,
         want_counts |-> IF "WANT_MORE_AI" \in d.columns
                         THEN value_counts(fillna(Column(f, "WANT_MORE_AI"), NotAnswered))
                         ELSE NoSeries,
         shown_trust |-> "TRUST_AI" \in d.columns,
         trust_counts |-> IF "TRUST_AI" \in d.columns
                          THEN value_counts(fillna(Column(f, "TRUST_AI"), NotAnswered))
                          ELSE NoSeries,
         ct |-> IF "TRUST_AI" \in d.columns
                THEN crosstab(f, "TRUST_AI", "AI_USAGE_RATING_NUM")
                ELSE NoTable]

(***************************************************************************)
(* TAB 2: the chat handler.                                                *)
(***************************************************************************)
min_history == 1
max_history == 25
default_history == 5

valid_keywords ==
    << <<"a", "g", "e">>, <<"g", "e", "n", "d", "e", "r">>, <<"e", "d", "u", "c", "a", "t", "i", "o", "n">>, <<"e", "m", "p", "l", "o", "y", "m", "e", "n", "t">>,
       <<"a", "i", " ", "u", "s", "a", "g", "e">>, <<"t", "r", "u", "s", "t">>, <<"a", "d", "o", "p", "t", "i", "o", "n">> >>

\* The out-of-scope reply (line 188), without its leading warning sign.
OutOfScopeMsg == <<"Sorry, your question seems outside the scope of the survey dataset.">>
\* The prefix of the error reply (line 216), without its leading warning sign.
ErrorPrefix == <<"Error: ">>
NoHistory == <<"No history.">>

\* in_scope with the keyword gate left out.
in_scope_ungated(user_input) == Len(user_input) >= 0

\* any(kw in user_input.lower() for kw in valid_keywords)
in_scope(user_input) ==
    \E k \in 1..Len(valid_keywords) : Contains(Lower(user_input), valid_keywords[k])

\* slice_to_last written as s[-n:], which takes in the current question.
slice_through_last(s, n) == SubSeq(s, Max(Len(s) - n, 0) + 1, Len(s))

\* s[-n:-1] for n >= 1
slice_to_last(s, n) == SubSeq(s, Max(Len(s) - n, 0) + 1, Max(Len(s) - 1, 0))

\* f"{m['role']}: {m['content']}"
history_line(m) == <<m.role, ": ">> \o m.content

\* "\n".join(lines)
RECURSIVE join_lines(_)
join_lines(lines) ==
    IF Len(lines) = 0 THEN <<>>
    ELSE IF Len(lines) = 1 THEN lines[1]
    ELSE lines[1] \o <<"\n">> \o join_lines(Tail(lines))

\* "\n".join(...) or "No history."
history_str_of(history) ==
    LET joined == join_lines([i \in 1..Len(history) |-> history_line(history[i])])
    IN  IF joined = <<>> THEN NoHistory ELSE joined

\* Lines 190-206: the prompt, as its three sections.  The data preview is the
\* first preview_rows filtered rows, kept as rows and not as rendered text.
prompt_of(msgs, n, d, f, user_input) ==
    [history_str |-> history_str_of(slice_to_last(msgs, n)),
     context_str |-> [columns |-> d.columns, rows |-> SubSeq(f, 1, Min(preview_rows, Len(f)))],
     question |-> user_input]

NoTurn ==
    [asked |-> FALSE, user_input |-> <<>>, calls |-> <<>>, failed |-> FALSE,
     answer |-> <<>>]

\* The reply for an in-scope question: the completion, or the formatted error
\* when the call raises (lines 212-216).
reply(outcome) == IF outcome.ok THEN outcome.text ELSE ErrorPrefix \o outcome.text

\* chat_turn without the try/except: a failing call ends the run before the
\* reply is appended.
chat_turn_uncaught(msgs, n, d, f, user_input, outcome) ==
    LET asked == Append(msgs, [role |-> "user", content |-> user_input])
        scoped == in_scope(user_input)
        answer == IF scoped THEN outcome.text ELSE OutOfScopeMsg
    IN  [messages |-> IF scoped /\ ~outcome.ok THEN asked
                      ELSE Append(asked, [role |-> "assistant", content |-> answer]),
         turn |-> [asked |-> TRUE,
                   user_input |-> user_input,
                   calls |-> IF scoped THEN <<prompt_of(asked, n, d, f, user_input)>>
                             ELSE <<>>,
                   failed |-> scoped /\ ~outcome.ok,
                   answer |-> answer]]

\* chat_turn that shows the out-of-scope reply without recording it.
chat_turn_unrecorded_rejection(msgs, n, d, f, user_input, outcome) ==
    LET asked == Append(msgs, [role |-> "user", content |-> user_input])
        scoped == in_scope(user_input)
        answer == IF scoped THEN reply(outcome) ELSE OutOfScopeMsg
    IN  [messages |-> IF scoped
                      THEN Append(asked, [role |-> "assistant", content |-> answer])
                      ELSE asked,
         turn |-> [asked |-> TRUE,
                   user_input |-> user_input,
                   calls |-> IF scoped THEN <<prompt_of(asked, n, d, f, user_input)>>
                             ELSE <<>>,
                   failed |-> scoped /\ ~outcome.ok,
                   answer |-> answer]]

\* Lines 178-220 for a submitted question; outcome is what the completion
\* service does if it is called.  calls holds the prompts sent to it.
chat_turn(msgs, n, d, f, user_input, outcome) ==
    LET asked == Append(msgs, [role |-> "user", content |-> user_input])
        scoped == in_scope(user_input)
        answer == IF scoped THEN reply(outcome) ELSE OutOfScopeMsg
    IN  [messages |-> Append(asked, [role |-> "assistant", content |-> answer]),
         turn |-> [asked |-> TRUE,
                   user_input |-> user_input,
                   calls |-> IF scoped THEN <<prompt_of(asked, n, d, f, user_input)>>
                             ELSE <<>>,
                   failed |-> scoped /\ ~outcome.ok,
                   answer |-> answer]]

(***************************************************************************)
(* Inputs.                                                                 *)
(***************************************************************************)
Questions ==
    { <<"W", "h", "a", "t", " ", "i", "s", " ", "t", "h", "e", " ", "c", "a", "p", "i", "t", "a", "l", " ", "o", "f", " ", "F", "r", "a", "n", "c", "e", "?">>,
      <<"W", "h", "i", "c", "h", " ", "A", "G", "E", " ", "g", "r", "o", "u", "p", " ", "u", "s", "e", "s", " ", "A", "I", " ", "m", "o", "s", "t", "?">>,
      <<"m", "e", "s", "s", "a", "g", "e">> }

Outcomes ==
    { [ok |-> TRUE, text |-> <<"Younger respondents.">>],
      [ok |-> FALSE, text |-> <<"connection reset">>] }

\* The rows a query may return for a table with the given columns, dom[c]
\* being the cells column c may hold.
RowsOf(dom) ==
    {r \in [DOMAIN dom -> UNION {dom[c] : c \in DOMAIN dom}] :
        \A c \in DOMAIN dom : r[c] \in dom[c]}

TablesOf(dom, maxRows) ==
    {[columns |-> DOMAIN dom, rows |-> rs] :
        rs \in UNION {[1..n -> RowsOf(dom)] : n \in 0..maxRows}}

Demographics ==
    ( "AGE_RANGE" :> {<<"1", "8", "-", "2", "4">>, <<"2", "5", "-", "3", "4">>}
   @@ "GENDER" :> {<<"F", "e", "m", "a", "l", "e">>, <<"M", "a", "l", "e">>}
   @@ "EDUCATION_LEVEL" :> {<<"B", "S", "c">>, NaN}
   @@ "EMPLOYMENT_STATUS" :> {<<"S", "t", "u", "d", "e", "n", "t">>} )

Ratings ==
    ( "AGE_RANGE" :> {<<"1", "8", "-", "2", "4">>, NaN}
   @@ "AI_USAGE_RATING" :> {<<"1">>, <<"5">>, <<"x">>}
   @@ "TRUST_AI" :> {<<"Y", "e", "s">>, <<"N", "o">>, NaN} )

Wants ==
    ( "WANT_MORE_AI" :> {<<"Y", "e", "s">>, <<"N", "o">>, NaN} )

RawHeaders ==
    ( "WHAT_IS_YOUR_AGE_RANGE" :> {<<"1", "8", "-", "2", "4">>, <<"2", "5", "-", "3", "4">>}
   @@ "PLEASE_RATE_HOW_ACTIVELY_YOU_USE_AI_POWERED_PRODUCTS_IN_YOUR_DAILY_LIFE_ON_A_SCALE_FROM_1_TO_5" :> {<<"4">>, <<"x">>}
   @@ "OCCUPATION" :> {<<"N", "u", "r", "s", "e">>} )

Sparse ==
    ( "AGE_RANGE" :> {<<"1", "8", "-", "2", "4">>, <<"2", "5", "-", "3", "4">>}
   @@ "GENDER" :> {<<"F", "e", "m", "a", "l", "e">>, <<"M", "a", "l", "e">>}
   @@ "AI_USAGE_RATING" :> {<<"3">>}
   @@ "TRUST_AI" :> {<<"Y", "e", "s">>}
   @@ "WANT_MORE_AI" :> {<<"Y", "e", "s">>} )

LongHeaders ==
    ( "What is your age range?" :> {<<"1", "8", "-", "2", "4">>, <<"2", "5", "-", "3", "4">>}
   @@ "Do you generally trust artificial intelligence (AI)?" :> {<<"y", "e", "s">>, <<"N", "o">>} )

\* The tables a session may find in the warehouse.  No table pairs a key of
\* rename_map with the name it maps to, and none has a column
\* AI_USAGE_RATING_NUM of its own.
Tables ==
    TablesOf(Demographics, MaxRows) \cup TablesOf(Ratings, MaxRows)
        \cup TablesOf(Wants, MaxRows + 2) \cup TablesOf(RawHeaders, MaxRows)
        \cup TablesOf(LongHeaders, MaxRows) \cup TablesOf(Sparse, MaxRows)

ChatTables ==
    { [columns |-> DOMAIN Wants, rows |-> <<>>],
      [columns |-> DOMAIN Wants,
       rows |-> << [c \in DOMAIN Wants |-> <<"Y", "e", "s">>], [c \in DOMAIN Wants |-> NaN] >>] }

(***************************************************************************)
(* The state machine.                                                      *)
(***************************************************************************)
NoPicks == [f \in Range(FilterFields) |-> AllOpt]

\* Everything a run computes before the chat tab, for source s and picks pk.
RunDashboard(s, pk) ==
    /\ source' = s
    /\ table' = table
    /\ df' = LoadData(s, table)
    /\ picks' = pk
    /\ df_f' = ApplyFilters(df', pk)
    /\ stats' = Dashboard(df', df_f')

InitWith(tables) ==
    /\ source = "AI_SURVEY_CLEAN"
    /\ table \in tables
    /\ df = LoadData(source, table)
    /\ picks = NoPicks
    /\ df_f = ApplyFilters(df, picks)
    /\ stats = Dashboard(df, df_f)
    /\ messages = <<>>
    /\ num_chat_messages = default_history
    /\ turn = NoTurn

\* The user selects the other data source.  A filter selectbox whose options
\* changed is a new widget and shows its first option again.
SelectSource(s) ==
    /\ s # source
    /\ LET was == df
           now == LoadData(s, table)
       IN  RunDashboard(s, [f \in Range(FilterFields) |->
                              IF pick_opts(now, f) = pick_opts(was, f)
                              THEN picks[f] ELSE AllOpt])
    /\ turn' = NoTurn
    /\ UNCHANGED <<messages, num_chat_messages>>

\* The user picks option v of the selectbox of filter field f.
Pick(f, v) ==
    /\ v # picks[f]
    /\ v \in Range(pick_opts(df, f))
    /\ RunDashboard(source, [picks EXCEPT ![f] = v])
    /\ turn' = NoTurn
    /\ UNCHANGED <<messages, num_chat_messages>>

\* The user presses Clear Chat: the callback empties the history, then the
\* script runs.  (Pressed on an empty history it changes nothing.)
ClearChat ==
    /\ messages # <<>>
    /\ messages' = <<>>
    /\ RunDashboard(source, picks)
    /\ turn' = NoTurn
    /\ UNCHANGED num_chat_messages

\* The user moves the History Length slider.
SetHistoryLength(n) ==
    /\ n # num_chat_messages
    /\ num_chat_messages' = n
    /\ RunDashboard(source, picks)
    /\ turn' = NoTurn
    /\ UNCHANGED messages

\* The user submits a question; outcome is what the completion service does
\* if it is called.  The history is kept to MaxExchanges exchanges.
Submit(q, outcome) ==
    /\ Len(messages) < 2 * MaxExchanges
    /\ RunDashboard(source, picks)
    /\ LET t == chat_turn(messages, num_chat_messages, df', df_f', q, outcome)
       IN  /\ messages' = t.messages
           /\ turn' = t.turn
    /\ UNCHANGED num_chat_messages

PickableCells == UNION {Range(pick_opts(df, FilterFields[i])) : i \in 1..Len(FilterFields)}

NextData ==
    \/ \E s \in Sources : SelectSource(s)
    \/ \E i \in 1..Len(FilterFields) : \E v \in PickableCells : Pick(FilterFields[i], v)

NextChat ==
    \/ ClearChat
    \/ \E n \in min_history..max_history : SetHistoryLength(n)
    \/ \E q \in Questions : \E o \in Outcomes : Submit(q, o)

SpecData == InitWith(Tables) /\ [][NextData]_vars

SpecChat == InitWith(ChatTables) /\ [][NextChat]_vars

(***************************************************************************)
(* Properties of the chat tab, checked under SpecChat.                     *)
(***************************************************************************)
AllowList ==
    { <<"a", "g", "e">>, <<"g", "e", "n", "d", "e", "r">>, <<"e", "d", "u", "c", "a", "t", "i", "o", "n">>, <<"e", "m", "p", "l", "o", "y", "m", "e", "n", "t">>,
      <<"a", "i", " ", "u", "s", "a", "g", "e">>, <<"t", "r", "u", "s", "t">>, <<"a", "d", "o", "p", "t", "i", "o", "n">> }

\* q contains the term kw, letter case aside.
Mentions(q, kw) ==
    \E at \in 1..Len(q) :
        /\ at + Len(kw) - 1 <= Len(q)
        /\ \A j \in 1..Len(kw) : LowerChar(q[at + j - 1]) = kw[j]

OnTopic(q) == \E kw \in AllowList : Mentions(q, kw)

UserMsg(q) == [role |-> "user", content |-> q]
AssistantMsg(a) == [role |-> "assistant", content |-> a]

\* C1: the completion service is contacted only for a question that contains
\* a term of the allow-list; a question containing none gets the out-of-scope
\* reply and no call is made for it.
C1_ServiceOnlyWhenOnTopic ==
    turn.asked =>
        /\ turn.calls # <<>> => OnTopic(turn.user_input)
        /\ ~OnTopic(turn.user_input) =>
              /\ turn.calls = <<>>
              /\ turn.answer = OutOfScopeMsg
              /\ messages[Len(messages)] = AssistantMsg(OutOfScopeMsg)

C1_Witness ==
    /\ turn.asked
    /\ ~OnTopic(turn.user_input)
    /\ turn.calls = <<>>
    /\ messages[Len(messages)] = AssistantMsg(OutOfScopeMsg)

\* C2: when the service call fails for an on-topic question the run still
\* completes: the reply is the formatted error, and the history is the old
\* history followed by the question and that error reply.
C2_FailureIsRecorded ==
    [][(turn'.asked /\ turn'.failed) =>
          \E o \in Outcomes :
             /\ ~o.ok
             /\ turn'.answer = ErrorPrefix \o o.text
             /\ messages' = messages \o
                   <<UserMsg(turn'.user_input), AssistantMsg(ErrorPrefix \o o.text)>>]_vars

C2_Witness ==
    /\ turn.asked
    /\ turn.failed
    /\ Len(messages) = 4
    /\ messages[4] = AssistantMsg(turn.answer)

\* The messages that were in the history before the question of this run.
Earlier == SubSeq(messages, 1, Len(messages) - 2)

\* The last k entries of s.
LastOf(s, k) == [i \in 1..Min(k, Len(s)) |-> s[Len(s) - Min(k, Len(s)) + i]]

SentHistory == turn.calls[1].history_str

HistoryText(ms) == join_lines([i \in 1..Len(ms) |-> history_line(ms[i])])

\* C4, as claimed: the prompt carries the most recent N exchanges (question
\* and reply) that precede the current question, N being the History Length,
\* and "No history." only when there is no earlier exchange.
C4_AsClaimed ==
    (turn.asked /\ turn.calls # <<>>) =>
        /\ turn.calls[1].question = turn.user_input
        /\ (SentHistory = NoHistory) <=> (Earlier = <<>>)
        /\ Earlier # <<>> =>
              SentHistory = HistoryText(LastOf(Earlier, 2 * num_chat_messages))

\* C4, amended: the prompt carries the most recent N - 1 messages that precede
\* the current question (all of them when there are fewer) and nothing older;
\* the current question is only in the Question section; "No history." is used
\* exactly when that slice is empty: no earlier message, or N = 1.
C4_SliceIsLastNMinusOneMessages ==
    (turn.asked /\ turn.calls # <<>>) =>
        /\ turn.calls[1].question = turn.user_input
        /\ (SentHistory = NoHistory) <=> (Earlier = <<>> \/ num_chat_messages = 1)
        /\ ~(Earlier = <<>> \/ num_chat_messages = 1) =>
              SentHistory = HistoryText(LastOf(Earlier, num_chat_messages - 1))

C4_Witness ==
    /\ turn.asked
    /\ turn.calls # <<>>
    /\ Len(Earlier) = 2
    /\ num_chat_messages = 2
    /\ SentHistory = history_line(Earlier[2])

\* The history after a question: the old history, the question, one reply.
Exchanged(old, new) ==
    /\ Len(new) = Len(old) + 2
    /\ SubSeq(new, 1, Len(old)) = old
    /\ new[Len(old) + 1].role = "user"
    /\ new[Len(old) + 2].role = "assistant"

Alternates(ms) ==
    /\ Len(ms) % 2 = 0
    /\ \A i \in 1..Len(ms) : ms[i].role = IF i % 2 = 1 THEN "user" ELSE "assistant"

\* C10: the history only ever changes by being emptied (Clear Chat) or by
\* gaining the question and one reply after the entries it had; so it always
\* has even length and alternates user, assistant.
C10_HistoryAppendOnly ==
    /\ [][\/ messages' = messages
          \/ messages' = <<>>
          \/ /\ Exchanged(messages, messages')
             /\ turn'.asked
             /\ messages'[Len(messages) + 1].content = turn'.user_input]_vars
    /\ []Alternates(messages)

C10_Witness ==
    /\ Len(messages) = 4
    /\ messages[2] = AssistantMsg(OutOfScopeMsg)
    /\ turn.asked
    /\ turn.failed

(***************************************************************************)
(* Properties of the data pipeline, checked under SpecData.                *)
(***************************************************************************)
\* The FilterSpec the four selectboxes express: the accepted values of field
\* f, the empty set when f is unconstrained.
Accepted(f) == IF picks[f] = AllOpt THEN {} ELSE {picks[f]}

Keeps(r) ==
    \A i \in 1..Len(FilterFields) :
        \/ Accepted(FilterFields[i]) = {}
        \/ /\ FilterFields[i] \in df.columns
           /\ r[FilterFields[i]] \in Accepted(FilterFields[i])

Matching == {i \in 1..Len(df.rows) : Keeps(df.rows[i])}

LongHeaderExample ==
    [columns |-> DOMAIN LongHeaders,
     rows |-> << ( "What is your age range?" :> <<"1", "8", "-", "2", "4">>
                @@ "Do you generally trust artificial intelligence (AI)?" :> <<"y", "e", "s">> ),
                 ( "What is your age range?" :> <<"2", "5", "-", "3", "4">>
                @@ "Do you generally trust artificial intelligence (AI)?" :> <<"N", "o">> ) >>]

\* C6: the table with the two long-question headers and rows ("18-24","yes"),
\* ("25-34","No") is built into rows AGE_RANGE "18-24", TRUST_AI "Yes" and
\* AGE_RANGE "25-34", TRUST_AI "No".
C6_LongHeadersAndYesNoFolded ==
    table = LongHeaderExample =>
        /\ {"AGE_RANGE", "TRUST_AI"} \subseteq df.columns
        /\ Column(df.rows, "AGE_RANGE") = << <<"1", "8", "-", "2", "4">>, <<"2", "5", "-", "3", "4">> >>
        /\ Column(df.rows, "TRUST_AI") = << <<"Y", "e", "s">>, <<"N", "o">> >>

\* The number a cell denotes, when it denotes one.
RECURSIVE Pow10(_)
Pow10(k) == IF k = 0 THEN 1 ELSE 10 * Pow10(k - 1)

RECURSIVE PlaceValues(_, _)
PlaceValues(x, i) ==
    IF i > Len(x) THEN 0
    ELSE DigitVal(x[i]) * Pow10(Len(x) - i) + PlaceValues(x, i + 1)

IsNumeral(x) == x # NaN /\ x # <<>> /\ \A i \in 1..Len(x) : x[i] \in Range(Digits)

RECURSIVE SumRatings(_)
SumRatings(P) ==
    IF P = {} THEN 0
    ELSE LET i == CHOOSE i \in P : TRUE
         IN  df_f[i]["AI_USAGE_RATING_NUM"][1] + SumRatings(P \ {i})

\* The mean of the ratings present among the filtered rows P.
MeanOfPresent(P) ==
    LET present == {i \in P : df_f[i]["AI_USAGE_RATING_NUM"] # NumNaN}
    IN  IF present = {} THEN NumNaN ELSE <<SumRatings(present), Cardinality(present)>>

FilteredRows == 1..Len(df_f)

\* C7: AI_USAGE_RATING_NUM is the number AI_USAGE_RATING denotes, and absent
\* when it denotes none or the column does not exist; the average rating, the
\* group means by age range and the trust x rating table leave absent values
\* out.
C7_RatingParsedAndAbsentExcluded ==
    /\ \A i \in 1..Len(df.rows) :
          df.rows[i]["AI_USAGE_RATING_NUM"] =
             IF "AI_USAGE_RATING" \in df.columns /\ IsNumeral(df.rows[i]["AI_USAGE_RATING"])
             THEN <<PlaceValues(df.rows[i]["AI_USAGE_RATING"], 1)>>
             ELSE NumNaN
    /\ stats.avg_rating = MeanOfPresent(FilteredRows)
    /\ stats.shown_grp =>
          \A k \in DOMAIN stats.grp :
             stats.grp[k] = MeanOfPresent({i \in FilteredRows : df_f[i]["AGE_RANGE"] = k})
    /\ stats.shown_trust =>
          /\ NumNaN \notin stats.ct.columns
          /\ DOMAIN stats.ct.cell = stats.ct.index \X stats.ct.columns
          /\ \A p \in DOMAIN stats.ct.cell :
                stats.ct.cell[p] =
                   Cardinality({i \in FilteredRows :
                                   /\ df_f[i]["TRUST_AI"] = p[1]
                                   /\ df_f[i]["AI_USAGE_RATING_NUM"] = p[2]})

C7_Witness ==
    /\ "AI_USAGE_RATING" \in df.columns
    /\ picks["AGE_RANGE"] # AllOpt
    /\ "TRUST_AI" \in df.columns
    /\ Len(df_f) = 2
    /\ df_f[1]["AI_USAGE_RATING"] = <<"x">>
    /\ df_f[1]["AI_USAGE_RATING_NUM"] = NumNaN
    /\ df_f[2]["AI_USAGE_RATING_NUM"] = <<5>>
    /\ stats.avg_rating = <<5, 1>>

RECURSIVE SumCounts(_)
SumCounts(counts) ==
    IF DOMAIN counts = {} THEN 0
    ELSE LET v == CHOOSE v \in DOMAIN counts : TRUE
         IN  counts[v] + SumCounts([w \in DOMAIN counts \ {v} |-> counts[w]])

\* counts maps every value of the filtered column, a missing cell counting as
\* "Not Answered", to the number of rows holding it.
CountsEveryRowOnce(counts, col) ==
    LET shown == [i \in FilteredRows |->
                    IF df_f[i][col] = NaN THEN NotAnswered ELSE df_f[i][col]]
    IN  /\ DOMAIN counts = Range(shown)
        /\ \A v \in DOMAIN counts : counts[v] = Cardinality({i \in FilteredRows : shown[i] = v})
        /\ SumCounts(counts) = Len(df_f)

\* C8: the value frequencies of WANT_MORE_AI and of TRUST_AI count every row of
\* the filtered view exactly once, missing values under "Not Answered".
C8_FrequenciesCoverEveryRow ==
    /\ stats.shown_want => CountsEveryRowOnce(stats.want_counts, "WANT_MORE_AI")
    /\ stats.shown_trust => CountsEveryRowOnce(stats.trust_counts, "TRUST_AI")

C8_Witness ==
    /\ source = "AI_SURVEY_RAW"
    /\ stats.shown_want
    /\ Column(df_f, "WANT_MORE_AI") = << <<"Y", "e", "s">>, <<"Y", "e", "s">>, <<"N", "o">>, NaN >>
    /\ stats.want_counts = (<<"Y", "e", "s">> :> 2 @@ <<"N", "o">> :> 1 @@ NotAnswered :> 1)

====
